---- MODULE Spec2Model ----
(***************************************************************************)
(* A model of repo_dumper (src/src/repo_dumper.py).                        *)
(*                                                                         *)
(* Strings are sequences of one-character strings, so that relativising a  *)
(* path, splitting a pattern on "/" and matching a glob are computed on    *)
(* the characters, as the program and the pathspec library compute them.   *)
(*                                                                         *)
(* Two specifications:                                                     *)
(*   Spec       one or more runs of main() on a small directory tree;      *)
(*   SpecApply  apply_exclusions() called on entry lists, pattern lists    *)
(*              and a reference directory drawn from small sets.           *)
(***************************************************************************)
EXTENDS Naturals, Sequences, FiniteSets, TLC

VARIABLES
    \* ---- the file system -------------------------------------------------
    fs,                          \* absolute path -> "file" | "dir" | "missing"
    \* ---- main() ----------------------------------------------------------
    pc,                          \* position of main(); "ended": no process
    args,                        \* the parsed command line (argparse namespace)
    current_default_exclude_editable_files,
    all_collected_paths,
    repository_structure_paths,
    intermediate_editable_files,
    editable_files_paths,
    effective_e_patterns,
    effective_s_patterns,
    sorted_editable_files_for_content,
    loop_index,                  \* files of the content loop already processed
    output_md_content,           \* the lines of the report, in order
    stdout,                      \* what is printed to sys.stdout
    stderr,                      \* messages printed to sys.stderr
    exit_status,                 \* "none" | "running" | 0 | 1
    \* ---- apply_exclusions() called directly --------------------------------
    paths_to_filter,
    exclusion_patterns,
    reference_dir,
    apply_result                 \* <<"none">> or <<"returned", list, stderr>>

vars == << fs, pc, args, current_default_exclude_editable_files,
           all_collected_paths, repository_structure_paths,
           intermediate_editable_files, editable_files_paths,
           effective_e_patterns, effective_s_patterns,
           sorted_editable_files_for_content, loop_index, output_md_content,
           stdout, stderr, exit_status,
           paths_to_filter, exclusion_patterns, reference_dir, apply_result >>

mainVars == << pc, args, current_default_exclude_editable_files,
               all_collected_paths, repository_structure_paths,
               intermediate_editable_files, editable_files_paths,
               effective_e_patterns, effective_s_patterns,
               sorted_editable_files_for_content, loop_index, output_md_content,
               stdout, stderr, exit_status >>

applyVars == << paths_to_filter, exclusion_patterns, reference_dir, apply_result >>

-----------------------------------------------------------------------------
(* Strings as character sequences.                                         *)

\* s[i..] ; the whole of s for i = 1, <<>> for i > Len(s)
Drop(s, n) == SubSeq(s, n + 1, Len(s))

StartsWith(s, p) == Len(p) <= Len(s) /\ SubSeq(s, 1, Len(p)) = p

\* str.split(sep) for a one-character separator: always at least one piece
RECURSIVE Split(_, _)
Split(s, sep) ==
    IF \A i \in 1..Len(s) : s[i] # sep
    THEN << s >>
    ELSE LET i == CHOOSE k \in 1..Len(s) :
                      s[k] = sep /\ \A j \in 1..(k - 1) : s[j] # sep
         IN  << SubSeq(s, 1, i - 1) >> \o Split(Drop(s, i), sep)

\* the characters of the model, in code point order
Alphabet ==
    << "!", "#", "*", ".", "/", "?", "\\", "_",
       "a", "b", "c", "d", "e", "f", "g", "h", "i", "j", "k", "l", "m",
       "n", "o", "p", "q", "r", "s", "t", "u", "v", "w", "x", "y", "z" >>

Ord(c) == CHOOSE i \in 1..Len(Alphabet) : Alphabet[i] = c

\* a < b on str: lexicographic by code point
RECURSIVE StrLess(_, _)
StrLess(a, b) ==
    IF b = <<>> THEN FALSE
    ELSE IF a = <<>> THEN TRUE
    ELSE IF Head(a) = Head(b) THEN StrLess(Tail(a), Tail(b))
    ELSE Ord(Head(a)) < Ord(Head(b))

SeqToSet(s) == { s[i] : i \in 1..Len(s) }

\* the sequences over S of length at most n
RECURSIVE SeqsUpTo(_, _)
SeqsUpTo(S, n) ==
    IF n = 0 THEN { <<>> }
    ELSE LET shorter == SeqsUpTo(S, n - 1)
         IN  shorter \cup { Append(q, e) : q \in shorter, e \in S }

-----------------------------------------------------------------------------
(* Names, paths and patterns of the model                                  *)

Join(dir, name) == dir \o << "/" >> \o name          \* Path / name

Root == << "/", "r" >>                               \* the scanned directory
Outside == << "/", "o" >>                            \* a directory beside it
NoSuchDir == << "/", "n" >>                          \* a path that does not exist

N_build == << "b", "u", "i", "l", "d" >>
N_x == << "x" >>
N_z == << "z" >>
N_c == << "c" >>
N_git == << ".", "g", "i", "t" >>
N_keep_log == << "k", "e", "e", "p", ".", "l", "o", "g" >>
N_other_log == << "o", "t", "h", "e", "r", ".", "l", "o", "g" >>
N_a_txt == << "a", ".", "t", "x", "t" >>
N_o_md == << "o", ".", "m", "d" >>

P_star_log == << "*", ".", "l", "o", "g" >>                      \* *.log
P_not_keep_log == << "!" >> \o N_keep_log                        \* !keep.log
P_star_txt == << "*", ".", "t", "x", "t" >>                      \* *.txt
P_not_a_txt == << "!" >> \o N_a_txt                              \* !a.txt
P_build_dir == N_build \o << "/" >>                              \* build/
P_trailing_escape == << "a", "\\" >>     \* a\  : cannot be compiled
P_not_git_c == << "!" >> \o N_git \o << "/" >> \o N_c            \* !.git/c
P_not_o_md == << "!" >> \o N_o_md                                \* !o.md

DEFAULT_OUTPUT_FILENAME ==
    << "r", "e", "p", "o", "_", "d", "u", "m", "p", ".", "m", "d" >>

DEFAULT_EXCLUDE_STRUCTURE ==
    << << "*", "*", "/", ".", "g", "i", "t", "/", "*" >>,
       << "*", "*", "/", "l", "i", "b", "/", "*", "/", "*" >>,
       << "*", "*", "/", ".", "c", "s", "p", "e", "l", "l", "/", "*" >>,
       << "*", "*", "/", "r", "e", "p", "o", "_", "d", "u", "m", "p", ".",
          "m", "d" >> >>

DEFAULT_EXCLUDE_EDITABLE_FILES ==
    << << "*", "*", "/", "l", "i", "b", "/", "*" >> >>

\* the values of --output_file the model runs with
OutputFilenames == { DEFAULT_OUTPUT_FILENAME, N_o_md }

\* the patterns a caller passes to apply_exclusions directly
ApplyPatterns ==
    { P_star_log, P_not_keep_log, P_star_txt, P_not_a_txt, P_build_dir,
      P_trailing_escape }

\* the values of --exclude_structure and --exclude_editable
CustomStructurePatterns == { P_star_txt, P_not_git_c }

CustomEditablePatterns == { P_not_o_md, P_trailing_escape }

\* the paths a caller passes to apply_exclusions directly, in a fixed order
ApplyPaths ==
    << Join(Root, N_a_txt), Join(Root, N_build),
       Join(Join(Root, N_build), N_x), Join(Root, N_keep_log),
       Join(Root, N_other_log), Join(Outside, N_z) >>

\* the paths of the tree main() scans, and the root paths it is started with
MainPaths ==
    { Root, NoSuchDir, Join(Root, N_git), Join(Join(Root, N_git), N_c),
      Join(Root, N_a_txt), Join(Root, DEFAULT_OUTPUT_FILENAME),
      Join(Root, N_o_md) }

RECURSIVE SetToSeq(_)
SetToSeq(S) ==
    IF S = {} THEN <<>>
    ELSE LET x == CHOOSE y \in S : TRUE IN << x >> \o SetToSeq(S \ { x })

\* every pattern and every relative path string of the model, enumerated:
\* the domains of the memo tables below
PatternUniverse ==
    SetToSeq(ApplyPatterns \cup CustomStructurePatterns
             \cup CustomEditablePatterns
             \cup SeqToSet(DEFAULT_EXCLUDE_STRUCTURE)
             \cup SeqToSet(DEFAULT_EXCLUDE_EDITABLE_FILES)
             \cup OutputFilenames
             \cup { << "*", "*", "/" >> \o n : n \in OutputFilenames })

RelPathUniverse ==
    SetToSeq({ N_a_txt, N_build, Join(N_build, N_x), N_keep_log, N_other_log,
               N_z, N_git, Join(N_git, N_c), DEFAULT_OUTPUT_FILENAME, N_o_md,
               << "." >> })

PatternIndex(p) == CHOOSE i \in 1..Len(PatternUniverse) : PatternUniverse[i] = p

RelPathIndex(f) == CHOOSE i \in 1..Len(RelPathUniverse) : RelPathUniverse[i] = f

-----------------------------------------------------------------------------
(* pathspec.patterns.GitWildMatchPattern: a pattern is translated to a     *)
(* regular expression, modelled as a sequence of tokens                    *)
(*   [k |-> "lit", c]   the character c                                    *)
(*   [k |-> "nonslash"] [^/]                                               *)
(*   [k |-> "any"]      .                                                  *)
(*   [k |-> "star", sub] (sub)*  for a one-token sub                       *)
(*   [k |-> "opt", sub]  (?:sub)?                                          *)
(* and the regular expression is matched against the whole path string.   *)

Lit(ch) == [k |-> "lit", c |-> ch, sub |-> <<>>]
NonSlash == [k |-> "nonslash", c |-> "", sub |-> <<>>]
AnyChar == [k |-> "any", c |-> "", sub |-> <<>>]
Star(t) == [k |-> "star", c |-> "", sub |-> << t >>]
Opt(re) == [k |-> "opt", c |-> "", sub |-> re]

RE_DotPlus == << AnyChar, Star(AnyChar) >>                          \* .+
RE_DotStar == << Star(AnyChar) >>                                   \* .*
RE_SegPlus == << NonSlash, Star(NonSlash) >>                        \* [^/]+
RE_OptDirPrefix == << Opt(RE_DotPlus \o << Lit("/") >>) >>          \* (?:.+/)?
RE_OptSlashDotPlus == << Opt(<< Lit("/") >> \o RE_DotPlus) >>       \* (?:/.+)?
RE_OptSlashDotStar == << Opt(<< Lit("/") >> \o RE_DotStar) >>       \* (?:/.*)?

\* re.match of ^re$ on s
RECURSIVE ReMatch(_, _)
ReMatch(re, s) ==
    IF re = <<>> THEN s = <<>>
    ELSE LET t == Head(re)
             r == Tail(re)
         IN  CASE t.k = "lit" ->
                    s # <<>> /\ Head(s) = t.c /\ ReMatch(r, Tail(s))
               [] t.k = "nonslash" ->
                    s # <<>> /\ Head(s) # "/" /\ ReMatch(r, Tail(s))
               [] t.k = "any" ->
                    s # <<>> /\ ReMatch(r, Tail(s))
               [] t.k = "star" ->
                    \/ ReMatch(r, s)
                    \/ s # <<>> /\ ReMatch(t.sub, << Head(s) >>)
                                /\ ReMatch(re, Tail(s))
               [] t.k = "opt" ->
                    ReMatch(r, s) \/ ReMatch(t.sub \o r, s)

\* GitWildMatchPattern._translate_segment_glob: one path segment of a pattern.
\* "*" is [^/]*, "?" is [^/], a backslash escapes the next character, and a
\* backslash with no next character is a ValueError (ok = FALSE).
RECURSIVE TranslateSegmentGlob(_)
TranslateSegmentGlob(seg) ==
    IF seg = <<>> THEN [ok |-> TRUE, re |-> <<>>]
    ELSE IF Head(seg) = "\\"
    THEN IF Len(seg) = 1
         THEN [ok |-> FALSE, re |-> <<>>]
         ELSE LET rest == TranslateSegmentGlob(Drop(seg, 2))
              IN  [ok |-> rest.ok, re |-> << Lit(seg[2]) >> \o rest.re]
    ELSE LET rest == TranslateSegmentGlob(Tail(seg))
             tok == IF Head(seg) = "*" THEN Star(NonSlash)
                    ELSE IF Head(seg) = "?" THEN NonSlash
                    ELSE Lit(Head(seg))
         IN  [ok |-> rest.ok, re |-> << tok >> \o rest.re]

\* pattern_to_regex: "duplicate double-asterisk sequences" are collapsed
RECURSIVE DedupeDoubleStar(_)
DedupeDoubleStar(segs) ==
    IF Len(segs) < 2 THEN segs
    ELSE IF segs[1] = << "*", "*" >> /\ segs[2] = << "*", "*" >>
    THEN DedupeDoubleStar(Tail(segs))
    ELSE << Head(segs) >> \o DedupeDoubleStar(Tail(segs))

\* pattern_to_regex: a leading slash is dropped; a pattern without a slash
\* (or with a trailing slash only) matches at any depth
AnchorSegs(segs) ==
    IF segs[1] = <<>> THEN Tail(segs)
    ELSE IF Len(segs) = 1 \/ (Len(segs) = 2 /\ segs[2] = <<>>)
    THEN IF segs[1] # << "*", "*" >> THEN << << "*", "*" >> >> \o segs ELSE segs
    ELSE segs

\* pattern_to_regex: a trailing slash matches everything under the directory
TrailingSlashSegs(segs) ==
    IF segs # <<>> /\ segs[Len(segs)] = <<>> /\ Len(segs) > 1
    THEN SubSeq(segs, 1, Len(segs) - 1) \o << << "*", "*" >> >>
    ELSE segs

\* pattern_to_regex: the segments after the edge cases
NormalizeSegs(segs0) == TrailingSlashSegs(AnchorSegs(DedupeDoubleStar(segs0)))

\* pattern_to_regex: one step of the output loop, before the regular
\* expression `rest` of the later segments
PrependRegex(this, rest) == [ok |-> this.ok /\ rest.ok, re |-> this.re \o rest.re]

SegRegex(seg, need_slash, is_last) ==
    LET this == IF seg = << "*" >>
                THEN [ok |-> TRUE, re |-> RE_SegPlus]
                ELSE TranslateSegmentGlob(seg)
    IN  [ok |-> this.ok,
         re |-> (IF need_slash THEN << Lit("/") >> ELSE <<>>)
                \o this.re
                \o (IF is_last THEN RE_OptSlashDotStar ELSE <<>>)]

\* pattern_to_regex: the output loop over the normalised segments
RECURSIVE SegsToRegex(_, _, _, _)
SegsToRegex(segs, i, need_slash, is_dir_pattern) ==
    IF i > Len(segs) THEN [ok |-> TRUE, re |-> <<>>]
    ELSE IF segs[i] = << "*", "*" >>
    THEN IF i = 1 /\ i = Len(segs)
         THEN [ok |-> TRUE, re |-> RE_DotPlus]
         ELSE IF i = Len(segs)
         THEN [ok |-> TRUE,
               re |-> << Lit("/") >> \o
                      (IF is_dir_pattern THEN RE_DotStar ELSE RE_DotPlus)]
         ELSE PrependRegex(
                  [ok |-> TRUE,
                   re |-> IF i = 1 THEN RE_OptDirPrefix ELSE RE_OptSlashDotPlus],
                  SegsToRegex(segs, i + 1, i # 1, is_dir_pattern))
    ELSE PrependRegex(SegRegex(segs[i], need_slash, i = Len(segs)),
                      SegsToRegex(segs, i + 1, TRUE, is_dir_pattern))

\* pattern_to_regex: the regular expression of the segments of a pattern
\* (override is the "**/" edge case)
SegsRegex(include, segs, override, out) ==
    IF segs = <<>>
    THEN [ok |-> FALSE, include |-> "none", re |-> <<>>]
    ELSE IF override
    THEN [ok |-> TRUE, include |-> include,
          re |-> RE_DotPlus \o << Lit("/") >> \o RE_DotStar]
    ELSE [ok |-> out.ok, include |-> include, re |-> out.re]

IsDoubleStarSlash(dedup) ==
    Len(dedup) = 2 /\ dedup[1] = << "*", "*" >> /\ dedup[2] = <<>>

CompileSegs(include, segs0, segs) ==
    SegsRegex(include, segs, IsDoubleStarSlash(DedupeDoubleStar(segs0)),
              SegsToRegex(segs, 1, FALSE, segs0[Len(segs0)] = <<>>))

CompileBody(include, segs0) == CompileSegs(include, segs0, NormalizeSegs(segs0))

\* GitWildMatchPattern.pattern_to_regex.  The result is
\*   [ok |-> FALSE]                     GitWildMatchPatternError
\*   [ok |-> TRUE, include |-> "none"]  a comment, a blank line or "/"
\*   [ok |-> TRUE, include |-> "yes" | "no", re |-> ...]
pattern_to_regex(pattern) ==
    IF pattern = <<>> \/ Head(pattern) = "#" \/ pattern = << "/" >>
    THEN [ok |-> TRUE, include |-> "none", re |-> <<>>]
    ELSE IF Head(pattern) = "!"
    THEN CompileBody("no", Split(Tail(pattern), "/"))
    ELSE CompileBody("yes", Split(pattern, "/"))

-----------------------------------------------------------------------------
(* pathspec.PathSpec                                                       *)

\* A GitWildMatchPattern object: the pattern string and what it compiled to.
PatternObject(p, r) ==
    [pattern |-> p, ok |-> r.ok, include |-> r.include, re |-> r.re]

GitWildMatchPattern(p) == PatternObject(p, pattern_to_regex(p))

\* RegexPattern.match_file: whether the pattern's regular expression matches
regex_match_file(pat, file) ==
    pat.ok /\ pat.include # "none" /\ ReMatch(pat.re, file)

\* Memo tables: each pattern of PatternUniverse compiled once, and matched
\* once against each string of RelPathUniverse.
RECURSIVE CompiledMemoUpTo(_)
CompiledMemoUpTo(n) ==
    IF n = 0 THEN <<>>
    ELSE Append(CompiledMemoUpTo(n - 1), GitWildMatchPattern(PatternUniverse[n]))

CompiledMemo == CompiledMemoUpTo(Len(PatternUniverse))

RECURSIVE MatchRowUpTo(_, _)
MatchRowUpTo(pat, n) ==
    IF n = 0 THEN <<>>
    ELSE Append(MatchRowUpTo(pat, n - 1), regex_match_file(pat, RelPathUniverse[n]))

RECURSIVE MatchMemoUpTo(_)
MatchMemoUpTo(n) ==
    IF n = 0 THEN <<>>
    ELSE Append(MatchMemoUpTo(n - 1),
                MatchRowUpTo(CompiledMemo[n], Len(RelPathUniverse)))

MatchMemo == MatchMemoUpTo(Len(PatternUniverse))

Compiled(p) == CompiledMemo[PatternIndex(p)]

Matches(pat, file) == MatchMemo[PatternIndex(pat.pattern)][RelPathIndex(file)]

\* PathSpec.from_lines: every non-empty line is compiled, in order
RECURSIVE CompileLines(_)
CompileLines(lines) ==
    IF lines = <<>> THEN <<>>
    ELSE IF Head(lines) = <<>> THEN CompileLines(Tail(lines))
    ELSE << Compiled(Head(lines)) >> \o CompileLines(Tail(lines))

\* one pattern that cannot be compiled makes the whole call raise (ok = FALSE)
PathSpecObject(compiled) ==
    [ok |-> \A i \in 1..Len(compiled) : compiled[i].ok, patterns |-> compiled]

PathSpec_from_lines(lines) == PathSpecObject(CompileLines(lines))

\* (mutant) the first pattern that matches decides
RECURSIVE check_match_file_first(_, _, _, _)
check_match_file_first(patterns, i, file, out_include) ==
    IF i > Len(patterns) THEN out_include
    ELSE LET pat == patterns[i]
             hit == pat.include # "none" /\ Matches(pat, file)
         IN  check_match_file_first(patterns, i + 1, file,
                                    IF hit /\ out_include = "none"
                                    THEN pat.include ELSE out_include)

\* util.check_match_file: the patterns are tried in order and every pattern
\* that matches overwrites the verdict; "none" when no pattern matched.
RECURSIVE check_match_file(_, _, _, _)
check_match_file(patterns, i, file, out_include) ==
    IF i > Len(patterns) THEN out_include
    ELSE LET pat == patterns[i]
             hit == pat.include # "none" /\ Matches(pat, file)
         IN  check_match_file(patterns, i + 1, file,
                              IF hit THEN pat.include ELSE out_include)

\* PathSpec.match_files: the files whose verdict is "yes"
match_files(spec, files) ==
    { f \in files : check_match_file(spec.patterns, 1, f, "none") = "yes" }

-----------------------------------------------------------------------------
(* pathlib.Path, on absolute paths given as character sequences            *)

os_sep == "/"

\* str.replace(old, new) for one-character old and new
Replace(s, old, new) == [i \in 1..Len(s) |-> IF s[i] = old THEN new ELSE s[i]]

\* Path.is_relative_to(other)
is_relative_to(item, dir) == item = dir \/ StartsWith(item, dir \o << "/" >>)

\* str(Path.relative_to(other)); defined when is_relative_to (a ValueError
\* otherwise)
relative_to(item, dir) ==
    IF item = dir THEN << "." >> ELSE Drop(item, Len(dir) + 1)

\* Path.exists() or Path.is_symlink(): a dangling symlink is no file and no
\* directory, and exists() is False for it
exists_or_symlink(item) == fs[item] # "missing"

is_file(item) == fs[item] = "file"

is_dir(item) == fs[item] = "dir"

-----------------------------------------------------------------------------
(* apply_exclusions                                                        *)

\* lines 49-57: the dict relative path string -> item, in insertion order,
\* as a sequence of <<key, item>>; a key seen again keeps its position and
\* takes the later item
RECURSIVE relative_path_strings_map(_, _, _)
relative_path_strings_map(paths, i, dir) ==
    IF i = 0 THEN <<>>
    ELSE LET before == relative_path_strings_map(paths, i - 1, dir)
             item == paths[i]
         IN  IF exists_or_symlink(item) /\ is_relative_to(item, dir)
             THEN LET key == Replace(relative_to(item, dir), os_sep, "/")
                  IN  IF \E j \in 1..Len(before) : before[j][1] = key
                      THEN [j \in 1..Len(before) |->
                               IF before[j][1] = key THEN << key, item >>
                               ELSE before[j]]
                      ELSE Append(before, << key, item >>)
             ELSE before

\* (mutant) the relative path strings are returned instead of the items
MapValues_keys(m) == [j \in 1..Len(m) |-> m[j][1]]

MapValues(m) == [j \in 1..Len(m) |-> m[j][2]]

MapKeys(m) == { m[j][1] : j \in 1..Len(m) }

\* lines 59-76, given the dict and the outcome of the compilation
FilterMap(map, spec) ==
    IF map = <<>>
    THEN [paths |-> <<>>, err |-> <<>>]
    ELSE IF ~spec.ok
    THEN [paths |-> MapValues(map),
          err |-> << "ERROR: Could not compile pathspec patterns" >>]
    ELSE [paths |-> MapValues(SelectSeq(map,
                       LAMBDA kv : kv[1] \notin match_files(spec, MapKeys(map)))),
          err |-> <<>>]

\* line 62
normalized_patterns(patterns) ==
    [i \in 1..Len(patterns) |-> Replace(patterns[i], os_sep, "/")]

\* (mutant) without the short circuit of lines 46-47
apply_exclusions_no_short_circuit(paths, patterns, dir) ==
    FilterMap(relative_path_strings_map(paths, Len(paths), dir),
              PathSpec_from_lines(normalized_patterns(patterns)))

\* The result of the call: the list it returns and what it prints to stderr.
apply_exclusions(paths, patterns, dir) ==
    IF patterns = <<>> \/ paths = <<>>
    THEN [paths |-> paths, err |-> <<>>]
    ELSE FilterMap(relative_path_strings_map(paths, Len(paths), dir),
                   PathSpec_from_lines(normalized_patterns(patterns)))

-----------------------------------------------------------------------------
(* get_all_paths, format_paths_for_markdown_list, sorted                    *)

Reverse(s) == [i \in 1..Len(s) |-> s[Len(s) + 1 - i]]

\* the sort key of lines 82 and 229
SortKey(item, dir) ==
    IF is_relative_to(item, dir) THEN relative_to(item, dir) ELSE item

\* sorted(paths, key=...): a stable sort by the key
RECURSIVE SortedByKey(_, _)
SortedByKey(paths, dir) ==
    IF paths = <<>> THEN <<>>
    ELSE LET n == Len(paths)
             front == SortedByKey(SubSeq(paths, 1, n - 1), dir)
             x == paths[n]
             \* x goes after every element whose key is not greater
             k == Cardinality({ j \in 1..Len(front) :
                                  ~StrLess(SortKey(x, dir), SortKey(front[j], dir)) })
         IN  SubSeq(front, 1, k) \o << x >> \o SubSeq(front, k + 1, Len(front))

\* every path rglob yields under root_dir, kept when p.exists() or p.is_symlink()
Descendants(root_dir) ==
    { q \in DOMAIN fs : StartsWith(q, root_dir \o << "/" >>) /\ exists_or_symlink(q) }

\* get_all_paths: list(set(...)) has no specified order; the model takes the
\* paths in ascending and in descending order
get_all_paths(root_dir) ==
    LET asc == SortedByKey(SetToSeq(Descendants(root_dir)), root_dir)
    IN  { asc, Reverse(asc) }

\* format_paths_for_markdown_list: one line per path, sorted by relative
\* path string, a directory with os.sep appended
format_paths_for_markdown_list(paths, dir) ==
    LET sorted_paths == SortedByKey(paths, dir)
    IN  [i \in 1..Len(sorted_paths) |->
            LET item == sorted_paths[i]
            IN  IF is_relative_to(item, dir)
                THEN << "- ", relative_to(item, dir)
                              \o (IF is_dir(item) THEN << os_sep >> ELSE <<>>) >>
                ELSE << "- ", item, "(Error: Not relative)" >>]

\* Path.suffix[1:] if Path.suffix else "text" (line 236)
lang_hint(file_path) ==
    LET parts == Split(file_path, "/")
        name == parts[Len(parts)]
        dots == { i \in 1..Len(name) : name[i] = "." }
        last == CHOOSE i \in dots : \A j \in dots : j <= i
    IN  IF dots = {} \/ last = 1 \/ last = Len(name)
        THEN << "t", "e", "x", "t" >>
        ELSE Drop(name, last)

-----------------------------------------------------------------------------
(* main                                                                    *)

MaxCustom == 1

target_root_path == args.root_path          \* Path(args.root_path).resolve()

output_filename_to_use == args.output_file

output_file_on_disk == Join(target_root_path, output_filename_to_use)

\* the command lines the model runs main() with
ArgsSpace ==
    [ root_path : { Root, Join(Root, N_a_txt), NoSuchDir },
      initial_list : BOOLEAN,
      exclude_structure : SeqsUpTo(CustomStructurePatterns, MaxCustom),
      exclude_editable : SeqsUpTo(CustomEditablePatterns, MaxCustom),
      default_patterns : BOOLEAN,
      output_file : OutputFilenames ]

\* the tree before the first run: no report has been written yet
MainFs0 ==
    [q \in MainPaths |->
        IF q \in { Root, Join(Root, N_git) } THEN "dir"
        ELSE IF q \in { Join(Join(Root, N_git), N_c), Join(Root, N_a_txt) }
        THEN "file"
        ELSE "missing"]

\* the argparse namespace before a command line is parsed (every option at
\* its default, the root not given yet)
NoArgs ==
    [ root_path |-> NoSuchDir, initial_list |-> FALSE, exclude_structure |-> <<>>,
      exclude_editable |-> <<>>, default_patterns |-> FALSE,
      output_file |-> DEFAULT_OUTPUT_FILENAME ]

\* no process is running: nothing of a run is left but the file system
NoProcess ==
    /\ pc = "ended"
    /\ args = NoArgs
    /\ current_default_exclude_editable_files = <<>>
    /\ all_collected_paths = <<>>
    /\ repository_structure_paths = <<>>
    /\ intermediate_editable_files = <<>>
    /\ editable_files_paths = <<>>
    /\ effective_e_patterns = <<>>
    /\ effective_s_patterns = <<>>
    /\ sorted_editable_files_for_content = <<>>
    /\ loop_index = 0
    /\ output_md_content = <<>>
    /\ stdout = <<>>
    /\ stderr = <<>>
    /\ exit_status = "none"

\* lines 109-138 and 269-270: the program is started with a command line
Start ==
    /\ pc = "ended"
    /\ args' \in ArgsSpace
    /\ pc' = "start"
    /\ exit_status' = "running"
    /\ UNCHANGED << fs, current_default_exclude_editable_files,
                    all_collected_paths, repository_structure_paths,
                    intermediate_editable_files, editable_files_paths,
                    effective_e_patterns, effective_s_patterns,
                    sorted_editable_files_for_content, loop_index,
                    output_md_content, stdout, stderr >>
    /\ UNCHANGED applyVars

\* (mutant) the check of the root reports the error and goes on
CheckRoot_no_exit ==
    /\ pc = "start"
    /\ IF ~is_dir(target_root_path)
       THEN stderr' = Append(stderr, << "Error: not a valid directory",
                                        args.root_path >>)
       ELSE UNCHANGED stderr
    /\ pc' = "defaults"
    /\ UNCHANGED << fs, args, current_default_exclude_editable_files,
                    all_collected_paths, repository_structure_paths,
                    intermediate_editable_files, editable_files_paths,
                    effective_e_patterns, effective_s_patterns,
                    sorted_editable_files_for_content, loop_index,
                    output_md_content, stdout, exit_status >>
    /\ UNCHANGED applyVars

\* lines 140-143: the root must be a directory
CheckRoot ==
    /\ pc = "start"
    /\ IF ~is_dir(target_root_path)
       THEN /\ stderr' = Append(stderr, << "Error: not a valid directory",
                                           args.root_path >>)
            /\ exit_status' = 1
            /\ pc' = "exited"
       ELSE /\ pc' = "defaults"
            /\ UNCHANGED << stderr, exit_status >>
    /\ UNCHANGED << fs, args, current_default_exclude_editable_files,
                    all_collected_paths, repository_structure_paths,
                    intermediate_editable_files, editable_files_paths,
                    effective_e_patterns, effective_s_patterns,
                    sorted_editable_files_for_content, loop_index,
                    output_md_content, stdout >>
    /\ UNCHANGED applyVars

\* (mutant) the output file name is not added to the default patterns
SetupDefaults_without_output ==
    /\ pc = "defaults"
    /\ current_default_exclude_editable_files' = DEFAULT_EXCLUDE_EDITABLE_FILES
    /\ pc' = "mode"
    /\ UNCHANGED << fs, args, all_collected_paths, repository_structure_paths,
                    intermediate_editable_files, editable_files_paths,
                    effective_e_patterns, effective_s_patterns,
                    sorted_editable_files_for_content, loop_index,
                    output_md_content, stdout, stderr, exit_status >>
    /\ UNCHANGED applyVars

\* lines 145-149: the output file name joins the default editable patterns
SetupDefaults ==
    /\ pc = "defaults"
    /\ current_default_exclude_editable_files' =
           DEFAULT_EXCLUDE_EDITABLE_FILES
           \o << output_filename_to_use >>
           \o << << "*", "*", "/" >> \o output_filename_to_use >>
    /\ pc' = "mode"
    /\ UNCHANGED << fs, args, all_collected_paths, repository_structure_paths,
                    intermediate_editable_files, editable_files_paths,
                    effective_e_patterns, effective_s_patterns,
                    sorted_editable_files_for_content, loop_index,
                    output_md_content, stdout, stderr, exit_status >>
    /\ UNCHANGED applyVars

\* lines 152-171: --initial_list prints every collected path and exits 0
InitialList ==
    /\ pc = "mode"
    /\ args.initial_list
    /\ \E initial_paths \in get_all_paths(target_root_path) :
         LET content == << << "---" >>, << "scan_timestamp" >>,
                           << "root_path", target_root_path >>,
                           << "filter_mode: Initial List" >>, << "---" >>, << "" >>,
                           << "# Initial Collected Paths (Folders and Files)" >>,
                           << "" >> >>
                        \o format_paths_for_markdown_list(initial_paths,
                                                          target_root_path)
         IN  /\ output_md_content' = content
             /\ stdout' = stdout \o << << "Scanning directory", target_root_path >> >>
                                 \o content
    /\ exit_status' = 0
    /\ pc' = "exited"
    /\ UNCHANGED << fs, args, current_default_exclude_editable_files,
                    all_collected_paths, repository_structure_paths,
                    intermediate_editable_files, editable_files_paths,
                    effective_e_patterns, effective_s_patterns,
                    sorted_editable_files_for_content, loop_index, stderr >>
    /\ UNCHANGED applyVars

\* lines 173-176: collect every path under the root
Collect ==
    /\ pc = "mode"
    /\ ~args.initial_list
    /\ stdout' = Append(stdout, << "Scanning directory", target_root_path >>)
    /\ \E collected \in get_all_paths(target_root_path) :
         /\ all_collected_paths' = collected
         /\ repository_structure_paths' = collected
    /\ pc' = "structure"
    /\ UNCHANGED << fs, args, current_default_exclude_editable_files,
                    intermediate_editable_files, editable_files_paths,
                    effective_e_patterns, effective_s_patterns,
                    sorted_editable_files_for_content, loop_index,
                    output_md_content, stderr, exit_status >>
    /\ UNCHANGED applyVars

\* lines 178-185: the structure filter
FilterStructure ==
    /\ pc = "structure"
    /\ effective_e_patterns' =
           args.exclude_structure
           \o (IF args.default_patterns THEN DEFAULT_EXCLUDE_STRUCTURE ELSE <<>>)
    /\ IF effective_e_patterns' # <<>>
       THEN \E r \in { apply_exclusions(repository_structure_paths,
                                        effective_e_patterns', target_root_path) } :
              /\ repository_structure_paths' = r.paths
              /\ stderr' = stderr \o r.err
       ELSE UNCHANGED << repository_structure_paths, stderr >>
    /\ pc' = "editable"
    /\ UNCHANGED << fs, args, current_default_exclude_editable_files,
                    all_collected_paths, intermediate_editable_files,
                    editable_files_paths, effective_s_patterns,
                    sorted_editable_files_for_content, loop_index,
                    output_md_content, stdout, exit_status >>
    /\ UNCHANGED applyVars

\* (mutant) the editable files are taken from every collected path
FilterEditable_from_all ==
    /\ pc = "editable"
    /\ intermediate_editable_files' = SelectSeq(all_collected_paths, is_file)
    /\ effective_s_patterns' =
           args.exclude_editable
           \o (IF args.default_patterns
               THEN current_default_exclude_editable_files ELSE <<>>)
    /\ IF effective_s_patterns' # <<>>
       THEN \E r \in { apply_exclusions(intermediate_editable_files',
                                        effective_s_patterns', target_root_path) } :
              /\ editable_files_paths' = r.paths
              /\ stderr' = stderr \o r.err
       ELSE /\ editable_files_paths' = intermediate_editable_files'
            /\ UNCHANGED stderr
    /\ pc' = "render"
    /\ UNCHANGED << fs, args, current_default_exclude_editable_files,
                    all_collected_paths, repository_structure_paths,
                    effective_e_patterns, sorted_editable_files_for_content,
                    loop_index, output_md_content, stdout, exit_status >>
    /\ UNCHANGED applyVars

\* lines 187-200: the files of the structure list, then the editable filter
FilterEditable ==
    /\ pc = "editable"
    /\ intermediate_editable_files' = SelectSeq(repository_structure_paths, is_file)
    /\ effective_s_patterns' =
           args.exclude_editable
           \o (IF args.default_patterns
               THEN current_default_exclude_editable_files ELSE <<>>)
    /\ IF effective_s_patterns' # <<>>
       THEN \E r \in { apply_exclusions(intermediate_editable_files',
                                        effective_s_patterns', target_root_path) } :
              /\ editable_files_paths' = r.paths
              /\ stderr' = stderr \o r.err
       ELSE /\ editable_files_paths' = intermediate_editable_files'
            /\ UNCHANGED stderr
    /\ pc' = "render"
    /\ UNCHANGED << fs, args, current_default_exclude_editable_files,
                    all_collected_paths, repository_structure_paths,
                    effective_e_patterns, sorted_editable_files_for_content,
                    loop_index, output_md_content, stdout, exit_status >>
    /\ UNCHANGED applyVars

\* lines 203-229: the header, the two lists, and the order of the content loop
RenderLists ==
    /\ pc = "render"
    /\ output_md_content' =
           << << "---" >>, << "scan_timestamp" >>,
              << "root_path", target_root_path >>,
              << "default_patterns_enabled", args.default_patterns >>,
              << "custom_exclude_structure_patterns", args.exclude_structure >>,
              << "custom_exclude_editable_patterns", args.exclude_editable >>,
              << "---" >>, << "" >>, << "# Repository Structure" >>, << "" >> >>
           \o format_paths_for_markdown_list(repository_structure_paths,
                                             target_root_path)
           \o << << "" >>, << "# Editable Files (List)" >>, << "" >> >>
           \o format_paths_for_markdown_list(editable_files_paths,
                                             target_root_path)
           \o << << "" >>, << "# Content of Editable Files" >>, << "" >> >>
    /\ sorted_editable_files_for_content' =
           SortedByKey(editable_files_paths, target_root_path)
    /\ loop_index' = 0
    /\ pc' = "content"
    /\ UNCHANGED << fs, args, current_default_exclude_editable_files,
                    all_collected_paths, repository_structure_paths,
                    intermediate_editable_files, editable_files_paths,
                    effective_e_patterns, effective_s_patterns, stdout, stderr,
                    exit_status >>
    /\ UNCHANGED applyVars

\* the file of the current iteration of the loop of lines 231-256
file_path == sorted_editable_files_for_content[loop_index + 1]

\* lines 232-234 and 256 around the block of one file (body); a line
\* << "fence", hint >> is the three-backquote line of a code block
ContentStep(body) ==
    /\ pc = "content"
    /\ loop_index < Len(sorted_editable_files_for_content)
    /\ output_md_content' =
           output_md_content
           \o << << "## FILE: ", Replace(relative_to(file_path, target_root_path),
                                         os_sep, "/") >>,
                 << "" >> >>
           \o body
           \o << << "" >> >>
    /\ loop_index' = loop_index + 1
    /\ UNCHANGED << fs, pc, args, current_default_exclude_editable_files,
                    all_collected_paths, repository_structure_paths,
                    intermediate_editable_files, editable_files_paths,
                    effective_e_patterns, effective_s_patterns,
                    sorted_editable_files_for_content, stdout, stderr,
                    exit_status >>
    /\ UNCHANGED applyVars

\* lines 238-243: the file is text and is read
ContentText ==
    /\ pc = "content" /\ loop_index < Len(sorted_editable_files_for_content)
    /\ is_file(file_path)
    /\ ContentStep(<< << "fence", lang_hint(file_path) >>,
                      << "content of", file_path >>,
                      << "fence" >> >>)

\* (mutant) a decode failure ends the run
ContentDecodeError_abort ==
    /\ pc = "content" /\ loop_index < Len(sorted_editable_files_for_content)
    /\ is_file(file_path)
    /\ pc' = "exited"
    /\ exit_status' = 1
    /\ UNCHANGED << fs, args, current_default_exclude_editable_files,
                    all_collected_paths, repository_structure_paths,
                    intermediate_editable_files, editable_files_paths,
                    effective_e_patterns, effective_s_patterns,
                    sorted_editable_files_for_content, loop_index,
                    output_md_content, stdout, stderr >>
    /\ UNCHANGED applyVars

\* lines 244-247: read_text raises UnicodeDecodeError
ContentDecodeError ==
    /\ pc = "content" /\ loop_index < Len(sorted_editable_files_for_content)
    /\ is_file(file_path)
    /\ ContentStep(<< << "fence", << "t", "e", "x", "t" >> >>,
                      << "[Error: Could not decode file content with UTF-8]" >>,
                      << "fence" >> >>)

\* lines 248-251: read_text raises another exception
ContentReadError ==
    /\ pc = "content" /\ loop_index < Len(sorted_editable_files_for_content)
    /\ is_file(file_path)
    /\ ContentStep(<< << "fence", << "t", "e", "x", "t" >> >>,
                      << "[Error reading file]" >>,
                      << "fence" >> >>)

\* lines 252-255: is_file_readable_text is False (binary, or is_binary raised)
ContentNotText ==
    /\ pc = "content" /\ loop_index < Len(sorted_editable_files_for_content)
    /\ ContentStep(<< << "fence", << "t", "e", "x", "t" >> >>,
                      << "[File is binary or unreadable]" >>,
                      << "fence" >> >>)

\* lines 258-265: the report is written under the root
WriteOutput ==
    /\ pc = "content"
    /\ loop_index = Len(sorted_editable_files_for_content)
    /\ fs' = [fs EXCEPT ![output_file_on_disk] = "file"]
    /\ stdout' = stdout \o << << "Content of editable files processed" >>,
                              << "Formatted output written to",
                                 output_file_on_disk >> >>
    /\ exit_status' = 0
    /\ pc' = "done"
    /\ UNCHANGED << args, current_default_exclude_editable_files,
                    all_collected_paths, repository_structure_paths,
                    intermediate_editable_files, editable_files_paths,
                    effective_e_patterns, effective_s_patterns,
                    sorted_editable_files_for_content, loop_index,
                    output_md_content, stderr >>
    /\ UNCHANGED applyVars

\* lines 266-267: opening or writing the file raises IOError
WriteOutputFails ==
    /\ pc = "content"
    /\ loop_index = Len(sorted_editable_files_for_content)
    /\ stdout' = Append(stdout, << "Content of editable files processed" >>)
    /\ stderr' = Append(stderr, << "Error writing output to file",
                                   output_file_on_disk >>)
    /\ exit_status' = 0
    /\ pc' = "done"
    /\ UNCHANGED << fs, args, current_default_exclude_editable_files,
                    all_collected_paths, repository_structure_paths,
                    intermediate_editable_files, editable_files_paths,
                    effective_e_patterns, effective_s_patterns,
                    sorted_editable_files_for_content, loop_index,
                    output_md_content >>
    /\ UNCHANGED applyVars

\* the process ends (sys.exit, or main returns): its variables are gone,
\* the file system stays
ProcessExit ==
    /\ pc \in { "done", "exited" }
    /\ pc' = "ended"
    /\ args' = NoArgs
    /\ current_default_exclude_editable_files' = <<>>
    /\ all_collected_paths' = <<>>
    /\ repository_structure_paths' = <<>>
    /\ intermediate_editable_files' = <<>>
    /\ editable_files_paths' = <<>>
    /\ effective_e_patterns' = <<>>
    /\ effective_s_patterns' = <<>>
    /\ sorted_editable_files_for_content' = <<>>
    /\ loop_index' = 0
    /\ output_md_content' = <<>>
    /\ stdout' = <<>>
    /\ stderr' = <<>>
    /\ exit_status' = "none"
    /\ UNCHANGED fs
    /\ UNCHANGED applyVars

ApplyIdle ==
    /\ paths_to_filter = <<>>
    /\ exclusion_patterns = <<>>
    /\ reference_dir = Root
    /\ apply_result = << "idle" >>

Init ==
    /\ fs = MainFs0
    /\ NoProcess
    /\ ApplyIdle

Next ==
    \/ Start
    \/ CheckRoot
    \/ SetupDefaults
    \/ InitialList
    \/ Collect
    \/ FilterStructure
    \/ FilterEditable
    \/ RenderLists
    \/ ContentText
    \/ ContentDecodeError
    \/ ContentReadError
    \/ ContentNotText
    \/ WriteOutput
    \/ WriteOutputFails
    \/ ProcessExit

Spec == Init /\ [][Next]_vars

-----------------------------------------------------------------------------
(* SpecApply: apply_exclusions on drawn inputs                             *)

MaxPatterns == 3

ApplyFs(build_kind) ==
    [q \in SeqToSet(ApplyPaths) |->
        IF q = Join(Root, N_build) THEN build_kind
        ELSE IF q = Join(Join(Root, N_build), N_x)
        THEN (IF build_kind = "dir" THEN "file" ELSE "missing")
        ELSE "file"]

\* the entry lists: every selection of ApplyPaths
EntryLists ==
    { SelectSeq(ApplyPaths, LAMBDA q : q \in S) : S \in SUBSET SeqToSet(ApplyPaths) }

MainIdle ==
    /\ pc = "idle"
    /\ args = <<>>
    /\ current_default_exclude_editable_files = <<>>
    /\ all_collected_paths = <<>>
    /\ repository_structure_paths = <<>>
    /\ intermediate_editable_files = <<>>
    /\ editable_files_paths = <<>>
    /\ effective_e_patterns = <<>>
    /\ effective_s_patterns = <<>>
    /\ sorted_editable_files_for_content = <<>>
    /\ loop_index = 0
    /\ output_md_content = <<>>
    /\ stdout = <<>>
    /\ stderr = <<>>
    /\ exit_status = "running"

InitApply ==
    /\ fs \in { ApplyFs("file"), ApplyFs("dir") }
    /\ paths_to_filter \in EntryLists
    /\ exclusion_patterns \in SeqsUpTo(ApplyPatterns, MaxPatterns)
    /\ reference_dir \in { Root, Outside }
    /\ apply_result = << "none" >>
    /\ MainIdle

\* one call of apply_exclusions(paths_to_filter, exclusion_patterns, reference_dir)
ApplyCall ==
    /\ apply_result = << "none" >>
    /\ \E r \in { apply_exclusions(paths_to_filter, exclusion_patterns,
                                   reference_dir) } :
         apply_result' = << "returned", r.paths, r.err >>
    /\ UNCHANGED << fs, paths_to_filter, exclusion_patterns, reference_dir >>
    /\ UNCHANGED mainVars

NextApply == ApplyCall

SpecApply == InitApply /\ [][NextApply]_vars

-----------------------------------------------------------------------------
(* Auxiliary definitions of the properties                                 *)

Returned == apply_result[1] = "returned"

ReturnedPaths == apply_result[2]

ReturnedErr == apply_result[3]

\* every pattern of the list can be compiled
AllCompile(patterns) == \A k \in 1..Len(patterns) : pattern_to_regex(patterns[k]).ok

\* the pattern string is negated
Negated(pattern) == pattern # <<>> /\ Head(pattern) = "!"

\* the indices of the patterns whose regular expression matches the string
Hits(patterns, rel) ==
    { k \in 1..Len(patterns) :
        LET r == pattern_to_regex(patterns[k])
        IN  r.ok /\ r.include # "none" /\ ReMatch(r.re, rel) }

LastOf(S) == CHOOSE k \in S : \A j \in S : j <= k

\* main() is past the editable filter of a Full mode run
PastEditableFilter == pc \in { "render", "content", "done" }

\* main() is past the structure filter of a Full mode run
PastStructureFilter == pc \in { "editable", "render", "content", "done" }

DoubleStarSlash(name) == << "*", "*", "/" >> \o name

-----------------------------------------------------------------------------
(* Properties of apply_exclusions, checked under SpecApply                 *)

\* C1: for a non-empty pattern list, every entry apply_exclusions returns is
\* an element of the entry list it was given, on each of its return paths.
C1_ResultWithinInput ==
    (Returned /\ exclusion_patterns # <<>>)
        => SeqToSet(ReturnedPaths) \subseteq SeqToSet(paths_to_filter)

\* a call that filtered by matching: one entry dropped, one retained, one
\* outside the reference directory
C1_Witness ==
    /\ Returned
    /\ exclusion_patterns = << P_star_log, P_not_keep_log >>
    /\ reference_dir = Root
    /\ Join(Root, N_other_log) \in SeqToSet(paths_to_filter)
    /\ Join(Outside, N_z) \in SeqToSet(paths_to_filter)
    /\ Join(Root, N_other_log) \notin SeqToSet(ReturnedPaths)
    /\ Join(Root, N_keep_log) \in SeqToSet(ReturnedPaths)

\* C5: when the pattern list compiles, an entry that has a relative path
\* (it exists and lies under the reference directory) is dropped exactly when
\* the last pattern matching its relative path is not negated, and retained
\* when that pattern is negated or no pattern matches; with the two examples
\* of the specification.
C5_LastMatchWins ==
    (Returned /\ exclusion_patterns # <<>> /\ AllCompile(exclusion_patterns))
        => /\ \A i \in 1..Len(paths_to_filter) :
                LET e == paths_to_filter[i]
                    hits == Hits(exclusion_patterns, relative_to(e, reference_dir))
                IN  (exists_or_symlink(e) /\ is_relative_to(e, reference_dir))
                        => ( e \in SeqToSet(ReturnedPaths)
                             <=> ( hits = {}
                                   \/ Negated(exclusion_patterns[LastOf(hits)]) ) )
           /\ (exclusion_patterns = << P_star_log, P_not_keep_log >>
               /\ reference_dir = Root)
                  => /\ Join(Root, N_other_log) \notin SeqToSet(ReturnedPaths)
                     /\ Join(Root, N_keep_log) \in SeqToSet(paths_to_filter)
                            => Join(Root, N_keep_log) \in SeqToSet(ReturnedPaths)
           /\ (exclusion_patterns = << P_star_txt, P_not_a_txt, P_star_txt >>
               /\ reference_dir = Root)
                  => Join(Root, N_a_txt) \notin SeqToSet(ReturnedPaths)

\* *.txt, !a.txt, *.txt : a.txt is dropped by the last pattern, keep.log stays
C5_Witness ==
    /\ Returned
    /\ exclusion_patterns = << P_star_txt, P_not_a_txt, P_star_txt >>
    /\ reference_dir = Root
    /\ Join(Root, N_a_txt) \in SeqToSet(paths_to_filter)
    /\ Join(Root, N_a_txt) \notin SeqToSet(ReturnedPaths)
    /\ Join(Root, N_keep_log) \in SeqToSet(ReturnedPaths)

\* C6: with the pattern list ["build/"], a directory entry whose relative
\* path is build is dropped and a file entry whose relative path is build is
\* retained.
C6_DirectoryOnlyPattern ==
    (Returned /\ exclusion_patterns = << P_build_dir >> /\ reference_dir = Root
     /\ Join(Root, N_build) \in SeqToSet(paths_to_filter))
        => /\ is_dir(Join(Root, N_build))
                => Join(Root, N_build) \notin SeqToSet(ReturnedPaths)
           /\ is_file(Join(Root, N_build))
                => Join(Root, N_build) \in SeqToSet(ReturnedPaths)

\* C7: when the pattern list cannot be compiled, apply_exclusions reports the
\* error and returns exactly the entries it was given, those outside the
\* reference directory included.
C7_FailOpenReturnsInput ==
    (Returned /\ paths_to_filter # <<>> /\ exclusion_patterns # <<>>
     /\ ~AllCompile(exclusion_patterns))
        => /\ ReturnedPaths = paths_to_filter
           /\ ReturnedErr # <<>>

\* C10: with an empty pattern list apply_exclusions returns the entry list
\* unchanged, entries outside the reference directory and entries that no
\* longer exist included; an empty entry list gives an empty list.
C10_ShortCircuit ==
    Returned => /\ exclusion_patterns = <<>> => ReturnedPaths = paths_to_filter
                /\ paths_to_filter = <<>> => ReturnedPaths = <<>>

\* an empty pattern list, with an entry outside the reference directory and
\* an entry that does not exist
C10_Witness ==
    /\ Returned
    /\ exclusion_patterns = <<>>
    /\ reference_dir = Root
    /\ Join(Outside, N_z) \in SeqToSet(paths_to_filter)
    /\ Join(Join(Root, N_build), N_x) \in SeqToSet(paths_to_filter)
    /\ ~exists_or_symlink(Join(Join(Root, N_build), N_x))
    /\ ReturnedPaths = paths_to_filter

-----------------------------------------------------------------------------
(* Properties of main, checked under Spec                                  *)

\* the lines of the report before the content blocks (lines 204-227)
PreludeLen == 10 + Len(repository_structure_paths) + 3
              + Len(editable_files_paths) + 3

\* the k-th line of the i-th content block (six lines a block)
BlockLine(i, k) == output_md_content[PreludeLen + 6 * (i - 1) + k]

Placeholders ==
    { << "[Error: Could not decode file content with UTF-8]" >>,
      << "[Error reading file]" >>,
      << "[File is binary or unreadable]" >> }

\* C2: in Full mode every editable entry is a file and is present in the
\* structure listing, whatever the custom patterns and the toggle.
C2_EditableWithinStructureFiles ==
    PastEditableFilter
        => SeqToSet(editable_files_paths)
               \subseteq { q \in SeqToSet(repository_structure_paths) : is_file(q) }

\* custom patterns on both filters; the structure list holds a directory and
\* a file that the editable list does not hold
C2_Witness ==
    /\ pc = "render"
    /\ args.exclude_structure # <<>>
    /\ args.exclude_editable # <<>>
    /\ editable_files_paths # <<>>
    /\ \E q \in SeqToSet(repository_structure_paths) : is_dir(q)
    /\ \E q \in SeqToSet(repository_structure_paths) :
           is_file(q) /\ q \notin SeqToSet(editable_files_paths)

C4_DefaultsThenCustom ==
    /\ (PastStructureFilter /\ args.default_patterns)
          => /\ effective_e_patterns
                    = DEFAULT_EXCLUDE_STRUCTURE \o args.exclude_structure
             /\ (args.exclude_structure # <<>>
                 /\ args.exclude_structure[Len(args.exclude_structure)] = P_not_git_c)
                    => Join(Join(Root, N_git), N_c)
                           \in SeqToSet(repository_structure_paths)
    /\ (PastEditableFilter /\ args.default_patterns)
          => effective_s_patterns
                 = current_default_exclude_editable_files \o args.exclude_editable

\* C8: started on a root that is not a directory, the run takes one step, to
\* exit status 1, with nothing collected, filtered, rendered or printed to
\* stdout and the file system unchanged; the process then ends, the file
\* system still unchanged.
C8_InvalidRootAborts ==
    [][ (pc \in { "start", "exited" } /\ ~is_dir(target_root_path))
           => /\ fs' = fs
              /\ pc = "start"
                   => /\ pc' = "exited"
                      /\ exit_status' = 1
                      /\ stderr' # <<>>
                      /\ stdout' = <<>>
                      /\ all_collected_paths' = <<>>
                      /\ repository_structure_paths' = <<>>
                      /\ editable_files_paths' = <<>>
                      /\ output_md_content' = <<>>
              /\ pc = "exited" => pc' = "ended" ]_vars

\* a run on a regular file, in Full mode, after an earlier run wrote a report
C8_Witness ==
    /\ pc = "exited"
    /\ exit_status = 1
    /\ args.root_path = Join(Root, N_a_txt)
    /\ ~args.initial_list
    /\ is_file(Join(Root, DEFAULT_OUTPUT_FILENAME))

\* C9: during and after the content loop the report holds exactly one block
\* for each file processed so far, in the order of the relative paths, the
\* block being the content or a placeholder; the loop never ends the run, and
\* a finished run has processed every editable file.
C9_OneBlockPerFile ==
    /\ pc \in { "content", "done" }
          => /\ Len(output_md_content) = PreludeLen + 6 * loop_index
             /\ Len(sorted_editable_files_for_content) = Len(editable_files_paths)
             /\ SeqToSet(sorted_editable_files_for_content)
                    = SeqToSet(editable_files_paths)
             /\ \A i \in 1..(Len(sorted_editable_files_for_content) - 1) :
                    StrLess(relative_to(sorted_editable_files_for_content[i],
                                        target_root_path),
                            relative_to(sorted_editable_files_for_content[i + 1],
                                        target_root_path))
             /\ \A i \in 1..loop_index :
                    /\ BlockLine(i, 1)
                           = << "## FILE: ",
                                relative_to(sorted_editable_files_for_content[i],
                                            target_root_path) >>
                    /\ BlockLine(i, 2) = << "" >>
                    /\ BlockLine(i, 3)[1] = "fence"
                    /\ \/ BlockLine(i, 4) \in Placeholders
                       \/ BlockLine(i, 4)
                              = << "content of", sorted_editable_files_for_content[i] >>
                    /\ BlockLine(i, 5) = << "fence" >>
                    /\ BlockLine(i, 6) = << "" >>
             /\ pc = "content" => exit_status = "running"
             /\ pc = "done"
                   => /\ loop_index = Len(sorted_editable_files_for_content)
                      /\ exit_status = 0
    /\ pc = "exited" => (args.initial_list \/ ~is_dir(target_root_path))

\* a finished run whose first file could not be decoded and whose second
\* file was read
C9_Witness ==
    /\ pc = "done"
    /\ Len(sorted_editable_files_for_content) >= 2
    /\ BlockLine(1, 4) = << "[Error: Could not decode file content with UTF-8]" >>
    /\ BlockLine(2, 4) = << "content of", sorted_editable_files_for_content[2] >>

====
